---------------------------- MODULE Spec2Model ----------------------------
(* Replay cursor of the durable worker executor:                           *)
(* golem-worker-executor/src/durable_host/replay_state.rs (ReplayState).   *)
(* The oplog store, OplogIndex, OplogRegion, DeletedRegions and            *)
(* OplogEntry::is_hint live in golem-common; they are modelled from their  *)
(* use in replay_state.rs and from the specification.                      *)
EXTENDS Integers, Sequences, FiniteSets

(***************************************************************************)
(* Bounds of the model                                                     *)
(***************************************************************************)
\* longest oplog held by the store when the session starts with skipped regions
MaxLen == 4
\* longest oplog held by the store when it starts with none
MaxZoneLen == 5
\* most skipped regions a cursor is created with or grows to
MaxRegions == 2
\* the count of drained ReplayFinished events saturates here
MaxFinished == 2
\* most events left undrained before the caller drains them
MaxPending == 1
\* the UpdateReplayed events drained are recorded up to this many
MaxDelivered == 2
\* longest oplog of the sessions that narrow the target in front of a region
MaxJumpLen == 6
\* longest oplog of the sessions that narrow the target into a zone
MaxNarrowLen == 7

(***************************************************************************)
(* OplogIndex                                                              *)
(***************************************************************************)
NONE == 0
INITIAL == 1
next(idx) == idx + 1
previous(idx) == idx - 1
range_end(idx, n) == idx + n

(***************************************************************************)
(* OplogEntry: the cases the cursor distinguishes                          *)
(***************************************************************************)
Create == "Create"
ExportedFunctionInvoked == "ExportedFunctionInvoked"
ExportedFunctionCompleted == "ExportedFunctionCompleted"
\* ChangePersistenceLevel { level: PersistNothing }
PersistNothing == "ChangePersistenceLevel(PersistNothing)"
\* ChangePersistenceLevel with any other level
PersistOther == "ChangePersistenceLevel(Smart)"
SuccessfulUpdate == "SuccessfulUpdate"
Log == "Log"
EntryKinds ==
    {ExportedFunctionInvoked, ExportedFunctionCompleted, PersistNothing,
     PersistOther, SuccessfulUpdate, Log}

\* the oplogs of the store: Create first, then entries of the given cases
Oplogs(kinds, max) ==
    UNION {{<<Create>> \o t : t \in [1..(n - 1) -> kinds]} : n \in 1..max}

(***************************************************************************)
(* OplogRegion and DeletedRegions                                          *)
(***************************************************************************)
OplogRegion(s, e) == [start |-> s, end |-> e]
contains(r, idx) == r.start <= idx /\ idx <= r.end
Disjoint(r, q) == r.end < q.start \/ q.end < r.start
\* all regions over the indices lo..n
RegionsOver(lo, n) == {r \in [start : lo..n, end : lo..n] : r.start <= r.end}
\* DeletedRegions: pairwise disjoint regions, kept sorted by start
DeletedRegionsOver(lo, n) ==
    {R \in SUBSET RegionsOver(lo, n) :
        /\ Cardinality(R) <= MaxRegions
        /\ \A r \in R, q \in R : r = q \/ Disjoint(r, q)}

\* Option<T>: <<>> is None, <<x>> is Some(x)
None == <<>>
Some(x) == <<x>>

find_next_deleted_region(regions, from) ==
    LET cand == {r \in regions : r.start >= from}
    IN  IF cand = {} THEN None
        ELSE Some(CHOOSE r \in cand : \A q \in cand : r.start <= q.start)

is_in_deleted_region(regions, idx) == \E r \in regions : contains(r, idx)

\* DeletedRegions::add: the new region absorbs every region it overlaps
add(regions, region) ==
    LET hit == {r \in regions : ~Disjoint(r, region)}
        lo == CHOOSE s \in {region.start} \cup {r.start : r \in hit} :
                  \A t \in {region.start} \cup {r.start : r \in hit} : s <= t
        hi == CHOOSE e \in {region.end} \cup {r.end : r \in hit} :
                  \A t \in {region.end} \cup {r.end : r \in hit} : e >= t
    IN  (regions \ hit) \cup {OplogRegion(lo, hi)}

(***************************************************************************)
(* ReplayEvent                                                             *)
(***************************************************************************)
ReplayFinished == [event |-> "ReplayFinished", new_version |-> 0]
UpdateReplayed(v) == [event |-> "UpdateReplayed", new_version |-> v]
\* the target_version carried by the SuccessfulUpdate entry stored at idx
target_version(idx) == idx

(***************************************************************************)
(* State                                                                   *)
(***************************************************************************)
VARIABLES
    oplog,                  \* the store: oplog[i] is the entry at OplogIndex i
    update_is_hint,         \* OplogEntry::is_hint of a SuccessfulUpdate entry
    replay_target,
    last_replayed_index,
    skipped_regions,        \* InternalReplayState
    next_skipped_region,
    log_hashes,
    pending_replay_events,
    has_seen_logs,
    panicked,               \* a read found no entry: unwrap() aborted the task
    ret,                    \* the last public operation and what it returned
    returned,               \* last index handed to the caller before that operation
    peeked,                 \* index rejected by the call just before it, or NONE
    delivered_finished,     \* ReplayFinished events drained so far
    delivered_updates       \* new_version of the UpdateReplayed events drained so far

vars ==
    <<oplog, update_is_hint, replay_target, last_replayed_index, skipped_regions,
      next_skipped_region, log_hashes, pending_replay_events, has_seen_logs,
      panicked, ret, returned, peeked, delivered_finished, delivered_updates>>

\* the fields of ReplayState that its methods write, as one value
Self ==
    [last_replayed_index |-> last_replayed_index,
     next_skipped_region |-> next_skipped_region,
     log_hashes |-> log_hashes,
     pending_replay_events |-> pending_replay_events,
     has_seen_logs |-> has_seen_logs,
     panicked |-> panicked]

is_hint(entry) == entry = Log \/ (entry = SuccessfulUpdate /\ update_is_hint)

\* the text (level, context, message) of the Log entry stored at idx
log_text(idx) == (idx \div 2) % 2
hash_log_entry(text) == <<text, text + 1>>

(***************************************************************************)
(* ReplayState: private methods, as functions of the cursor                *)
(***************************************************************************)
is_live(self) == self.last_replayed_index = replay_target
is_replay(self) == ~is_live(self)

record_replay_event(self, event) ==
    [self EXCEPT !.pending_replay_events = Append(@, event)]

\* get_out_of_skipped_region that lands on the entry after the region
get_out_of_skipped_region_lands_after(self) ==
    IF /\ is_replay(self)
       /\ self.next_skipped_region # None
       /\ self.next_skipped_region[1].start = next(self.last_replayed_index)
    THEN LET target == next(self.next_skipped_region[1].end)
             jumped == [self EXCEPT !.last_replayed_index = target]
         IN  [jumped EXCEPT !.next_skipped_region =
                 find_next_deleted_region(skipped_regions, jumped.last_replayed_index)]
    ELSE self

get_out_of_skipped_region(self) ==
    IF /\ is_replay(self)
       /\ self.next_skipped_region # None
       /\ self.next_skipped_region[1].start = next(self.last_replayed_index)
    THEN LET target == next(self.next_skipped_region[1].end)
             jumped == [self EXCEPT !.last_replayed_index = previous(target)]
         IN  [jumped EXCEPT !.next_skipped_region =
                 find_next_deleted_region(skipped_regions, jumped.last_replayed_index)]
    ELSE self

move_replay_idx(self, new_idx) ==
    get_out_of_skipped_region([self EXCEPT !.last_replayed_index = new_idx])

\* oplog_service.read(owner, idx, n): the indices of the entries returned
read(idx, n) == {i \in DOMAIN oplog : idx <= i /\ i < idx + n}

internal_get_next_oplog_entry(self) ==
    LET read_idx == next(self.last_replayed_index)
    IN  IF read(read_idx, 1) = {} THEN [self EXCEPT !.panicked = TRUE]
        ELSE LET s1 == IF oplog[read_idx] = SuccessfulUpdate
                       THEN record_replay_event(self, UpdateReplayed(target_version(read_idx)))
                       ELSE self
                 s2 == IF read_idx = replay_target
                       THEN record_replay_event(s1, ReplayFinished)
                       ELSE s1
             IN  move_replay_idx(s2, read_idx)

CHUNK_SIZE == 1024

\* the for loop over one chunk: [done, result] when it returns from the
\* function, [done, region] when the chunk is exhausted
RECURSIVE scan_chunk(_, _, _, _, _)
scan_chunk(idx, hi, region, end_check, for_all_intermediate) ==
    IF idx > hi THEN [done |-> FALSE, result |-> None, region |-> region]
    ELSE IF region # None /\ contains(region[1], idx)
    THEN scan_chunk(idx + 1, hi, region, end_check, for_all_intermediate)
    ELSE LET region2 == IF region # None /\ region[1].end = idx
                        THEN find_next_deleted_region(skipped_regions, next(idx))
                        ELSE region
         IN  IF oplog[idx] \in end_check
             THEN [done |-> TRUE, result |-> Some(idx), region |-> region2]
             ELSE IF oplog[idx] \notin for_all_intermediate
             THEN [done |-> TRUE, result |-> None, region |-> region2]
             ELSE scan_chunk(idx + 1, hi, region2, end_check, for_all_intermediate)

RECURSIVE scan_from(_, _, _, _)
scan_from(start, region, end_check, for_all_intermediate) ==
    IF ~(start < replay_target) THEN None
    ELSE LET entries == read(start, CHUNK_SIZE)
             r == scan_chunk(start, start + Cardinality(entries) - 1, region,
                             end_check, for_all_intermediate)
         IN  IF r.done THEN r.result
             ELSE scan_from(next(range_end(start, Cardinality(entries))), r.region,
                            end_check, for_all_intermediate)

\* lookup_oplog_entry_with_condition that never asks for_all_intermediate
lookup_without_intermediate(self, end_check, for_all_intermediate) ==
    scan_from(next(self.last_replayed_index), self.next_skipped_region,
              end_check, EntryKinds \cup {Create})

\* the predicates are given as the sets of entries they accept
lookup_oplog_entry_with_condition(self, end_check, for_all_intermediate) ==
    scan_from(next(self.last_replayed_index), self.next_skipped_region,
              end_check, for_all_intermediate)

lookup_oplog_entry(self, check) ==
    lookup_oplog_entry_with_condition(self, check, EntryKinds \cup {Create})

\* should_skip_to that takes a hint entry for a replayed one
should_skip_to_keeps_hints(self, entry) ==
    IF entry = PersistNothing
    THEN LET end_index == lookup_oplog_entry(self,
                              {PersistOther, ExportedFunctionCompleted})
         IN  IF end_index # None THEN end_index ELSE Some(replay_target)
    ELSE None

\* should_skip_to that steps over the opener of a zone only
should_skip_to_opener_only(self, entry) ==
    IF is_hint(entry) \/ entry = PersistNothing
    THEN Some(self.last_replayed_index)
    ELSE None

\* should_skip_to that stops before the entry that ends the zone
should_skip_to_before_closer(self, entry) ==
    IF is_hint(entry) THEN Some(self.last_replayed_index)
    ELSE IF entry = PersistNothing
    THEN LET end_index == lookup_oplog_entry(self,
                              {PersistOther, ExportedFunctionCompleted})
         IN  IF end_index # None THEN Some(previous(end_index[1]))
             ELSE Some(replay_target)
    ELSE None

should_skip_to(self, entry) ==
    IF is_hint(entry) THEN Some(self.last_replayed_index)
    ELSE IF entry = PersistNothing
    THEN LET end_index == lookup_oplog_entry(self,
                              {PersistOther, ExportedFunctionCompleted})
         IN  IF end_index # None THEN end_index ELSE Some(replay_target)
    ELSE None

\* a skip_forward that also fingerprints the Log entries it jumps over
RECURSIVE skip_forward_loop_hashes_jumped(_, _)
skip_forward_loop_hashes_jumped(self, logs) ==
    IF ~is_replay(self)
    THEN [self EXCEPT !.has_seen_logs = (logs # {}), !.log_hashes = logs]
    ELSE LET read_idx == next(self.last_replayed_index)
             s1 == internal_get_next_oplog_entry(self)
         IN  IF s1.panicked THEN s1
             ELSE LET entry == oplog[read_idx]
                      skip == should_skip_to(s1, entry)
                  IN  IF skip # None
                      THEN skip_forward_loop_hashes_jumped(
                               [s1 EXCEPT !.last_replayed_index = skip[1]],
                               logs \cup
                               {hash_log_entry(log_text(j)) :
                                    j \in {i \in DOMAIN oplog :
                                              /\ read_idx <= i
                                              /\ i <= skip[1]
                                              /\ oplog[i] = Log}})
                      ELSE [s1 EXCEPT
                               !.last_replayed_index = self.last_replayed_index,
                               !.next_skipped_region = self.next_skipped_region,
                               !.has_seen_logs = (logs # {}),
                               !.log_hashes = logs]

RECURSIVE skip_forward_loop(_, _)
skip_forward_loop(self, logs) ==
    IF ~is_replay(self)
    THEN [self EXCEPT !.has_seen_logs = (logs # {}), !.log_hashes = logs]
    ELSE LET read_idx == next(self.last_replayed_index)
             s1 == internal_get_next_oplog_entry(self)
         IN  IF s1.panicked THEN s1
             ELSE LET entry == oplog[read_idx]
                      skip == should_skip_to(s1, entry)
                  IN  IF skip # None
                      THEN skip_forward_loop(
                               [s1 EXCEPT !.last_replayed_index = skip[1]],
                               IF entry = Log
                               THEN logs \cup {hash_log_entry(log_text(read_idx))}
                               ELSE logs)
                      ELSE [s1 EXCEPT
                               !.last_replayed_index = self.last_replayed_index,
                               !.next_skipped_region = self.next_skipped_region,
                               !.has_seen_logs = (logs # {}),
                               !.log_hashes = logs]

\* skip_forward that adds to the log hashes of the run before it
skip_forward_keeps_logs(self) == skip_forward_loop(self, self.log_hashes)

\* skip_forward that reads nothing ahead
skip_forward_reads_nothing(self) ==
    [self EXCEPT !.has_seen_logs = FALSE, !.log_hashes = {}]

skip_forward(self) == skip_forward_loop(self, {})

\* try_get_oplog_entry that rewinds the cursor after an accepted read as well
try_get_oplog_entry_rewinds_accepted(self, accept) ==
    LET read_idx == next(self.last_replayed_index)
        s1 == internal_get_next_oplog_entry(self)
    IN  IF s1.panicked
        THEN [self |-> s1, some |-> FALSE, idx |-> read_idx, entry |-> "none"]
        ELSE [self |-> [s1 EXCEPT
                           !.last_replayed_index = self.last_replayed_index,
                           !.next_skipped_region = self.next_skipped_region],
              some |-> accept, idx |-> read_idx, entry |-> oplog[read_idx]]

\* try_get_oplog_entry that leaves the cursor on a rejected entry
try_get_oplog_entry_keeps_rejected(self, accept) ==
    LET read_idx == next(self.last_replayed_index)
        s1 == internal_get_next_oplog_entry(self)
    IN  IF s1.panicked
        THEN [self |-> s1, some |-> FALSE, idx |-> read_idx, entry |-> "none"]
        ELSE IF accept
        THEN [self |-> skip_forward(s1), some |-> TRUE,
              idx |-> read_idx, entry |-> oplog[read_idx]]
        ELSE [self |-> s1, some |-> FALSE, idx |-> read_idx, entry |-> oplog[read_idx]]

\* try_get_oplog_entry: the cursor after the call and what the call returns;
\* accept is the value of condition(&entry)
try_get_oplog_entry(self, accept) ==
    LET read_idx == next(self.last_replayed_index)
        s1 == internal_get_next_oplog_entry(self)
    IN  IF s1.panicked
        THEN [self |-> s1, some |-> FALSE, idx |-> read_idx, entry |-> "none"]
        ELSE IF accept
        THEN [self |-> skip_forward(s1), some |-> TRUE,
              idx |-> read_idx, entry |-> oplog[read_idx]]
        ELSE [self |-> [s1 EXCEPT
                           !.last_replayed_index = self.last_replayed_index,
                           !.next_skipped_region = self.next_skipped_region],
              some |-> FALSE, idx |-> read_idx, entry |-> oplog[read_idx]]

\* ReplayState::new, once skipped_regions and replay_target are in place
new ==
    LET s0 == [last_replayed_index |-> NONE,
               next_skipped_region |-> find_next_deleted_region(skipped_regions, NONE),
               log_hashes |-> {},
               pending_replay_events |-> <<>>,
               has_seen_logs |-> FALSE,
               panicked |-> FALSE]
    IN  skip_forward(move_replay_idx(s0, INITIAL))

(***************************************************************************)
(* ReplayState: public operations                                          *)
(***************************************************************************)
get_oplog_entry(self) == try_get_oplog_entry(self, TRUE)

\* switch_to_live that records ReplayFinished in live mode as well
switch_to_live_always_records(self) ==
    [record_replay_event(self, ReplayFinished) EXCEPT
        !.last_replayed_index = replay_target]

switch_to_live(self) ==
    LET s1 == IF ~is_live(self) THEN record_replay_event(self, ReplayFinished)
              ELSE self
    IN  [s1 EXCEPT !.last_replayed_index = replay_target]

\* take_new_replay_events that returns the events and leaves them queued
take_new_replay_events_keeps_queue(self) ==
    [self |-> self, events |-> self.pending_replay_events]

\* std::mem::take: the cursor after the call and the vector it returns
take_new_replay_events(self) ==
    [self |-> [self EXCEPT !.pending_replay_events = <<>>],
     events |-> self.pending_replay_events]

CountFinished(events) ==
    Cardinality({i \in DOMAIN events : events[i] = ReplayFinished})

Min(a, b) == IF a <= b THEN a ELSE b

\* the new_version of the UpdateReplayed events of a drained vector, in order
Versions(events) ==
    LET updates == SelectSeq(events, LAMBDA e : e.event = "UpdateReplayed")
    IN  [i \in 1..Len(updates) |-> updates[i].new_version]

(***************************************************************************)
(* The lock on internal (RwLock<InternalReplayState>) and the store reads  *)
(* of an operation, in the order in which the operation makes them         *)
(***************************************************************************)
\* a guard taken and dropped within one statement or one block
read_guard == <<"read_lock", "unlock">>
write_guard == <<"write_lock", "unlock">>

\* the snapshot of next_skipped_region that holds its guard after the block
snapshot_keeps_guard == <<"read_lock">>

\* { let internal = self.internal.read().await; ... clone() }
snapshot == read_guard

locks_of_record_replay_event == write_guard

\* self is the cursor with last_replayed_index already set
locks_of_get_out_of_skipped_region(self) ==
    IF is_replay(self) THEN write_guard ELSE <<>>

locks_of_internal_get_next_oplog_entry(self) ==
    LET read_idx == next(self.last_replayed_index)
    IN  <<"store_read">> \o
        IF read(read_idx, 1) = {} THEN <<>>
        ELSE (IF oplog[read_idx] = SuccessfulUpdate
              THEN locks_of_record_replay_event ELSE <<>>) \o
             (IF read_idx = replay_target
              THEN locks_of_record_replay_event ELSE <<>>) \o
             locks_of_get_out_of_skipped_region(
                 [self EXCEPT !.last_replayed_index = read_idx])

\* one store read per chunk; the reload of the region (lines 387-392) takes
\* its guard within one statement
RECURSIVE locks_of_scan(_, _, _, _)
locks_of_scan(start, region, end_check, for_all_intermediate) ==
    IF ~(start < replay_target) THEN <<>>
    ELSE LET entries == read(start, CHUNK_SIZE)
             r == scan_chunk(start, start + Cardinality(entries) - 1, region,
                             end_check, for_all_intermediate)
         IN  <<"store_read">> \o
             (IF r.region # region THEN read_guard ELSE <<>>) \o
             IF r.done THEN <<>>
             ELSE locks_of_scan(next(range_end(start, Cardinality(entries))),
                                r.region, end_check, for_all_intermediate)

locks_of_lookup_oplog_entry_with_condition(self, end_check, for_all_intermediate) ==
    read_guard \o
    locks_of_scan(next(self.last_replayed_index), self.next_skipped_region,
                  end_check, for_all_intermediate)

locks_of_should_skip_to(self, entry) ==
    IF ~is_hint(entry) /\ entry = PersistNothing
    THEN locks_of_lookup_oplog_entry_with_condition(
             self, {PersistOther, ExportedFunctionCompleted}, EntryKinds \cup {Create})
    ELSE <<>>

RECURSIVE locks_of_skip_forward(_)
locks_of_skip_forward(self) ==
    IF ~is_replay(self) THEN write_guard
    ELSE LET read_idx == next(self.last_replayed_index)
             s1 == internal_get_next_oplog_entry(self)
         IN  snapshot \o locks_of_internal_get_next_oplog_entry(self) \o
             IF s1.panicked THEN <<>>
             ELSE LET entry == oplog[read_idx]
                      skip == should_skip_to(s1, entry)
                  IN  locks_of_should_skip_to(s1, entry) \o
                      IF skip # None
                      THEN locks_of_skip_forward(
                               [s1 EXCEPT !.last_replayed_index = skip[1]])
                      ELSE write_guard \o write_guard

locks_of_try_get_oplog_entry(self, accept) ==
    LET s1 == internal_get_next_oplog_entry(self)
    IN  snapshot \o locks_of_internal_get_next_oplog_entry(self) \o
        IF s1.panicked THEN <<>>
        ELSE IF accept THEN locks_of_skip_forward(s1)
        ELSE write_guard

locks_of_new ==
    LET s0 == [last_replayed_index |-> INITIAL,
               next_skipped_region |-> find_next_deleted_region(skipped_regions, NONE),
               log_hashes |-> {},
               pending_replay_events |-> <<>>,
               has_seen_logs |-> FALSE,
               panicked |-> FALSE]
    IN  locks_of_get_out_of_skipped_region(s0) \o
        locks_of_skip_forward(get_out_of_skipped_region(s0))

\* the cursor becomes s
Commit(s) ==
    /\ last_replayed_index' = s.last_replayed_index
    /\ next_skipped_region' = s.next_skipped_region
    /\ log_hashes' = s.log_hashes
    /\ pending_replay_events' = s.pending_replay_events
    /\ has_seen_logs' = s.has_seen_logs
    /\ panicked' = s.panicked

\* what the operation op leaves in ret when it reads no entry
NoResult(op) ==
    [op |-> op, some |-> FALSE, idx |-> NONE, entry |-> "none", events |-> <<>>,
     found |-> None, args |-> None, locks |-> <<>>, outcome |-> "none"]

\* the operation returns r; what the call before it returned is kept
Return(r) ==
    /\ ret' = r
    /\ returned' = IF ret.some THEN ret.idx ELSE returned
    /\ peeked' = IF ~ret.some /\ ret.idx # NONE /\ ~panicked THEN ret.idx ELSE NONE

\* the owning task is running and the queues are within the model's bounds
CanRecord ==
    /\ ~panicked
    /\ Len(pending_replay_events) < MaxPending

\* the state new returns: the store holds one of logs, the session starts with
\* the log length as its target and with one of the region sets regions[n],
\* n the length of the log
InitOver(logs, hints, regions) ==
    /\ oplog \in logs
    /\ update_is_hint \in hints
    /\ replay_target = Len(oplog)
    /\ skipped_regions \in regions[Len(oplog)]
    /\ LET s == new
       IN  /\ last_replayed_index = s.last_replayed_index
           /\ next_skipped_region = s.next_skipped_region
           /\ log_hashes = s.log_hashes
           /\ pending_replay_events = s.pending_replay_events
           /\ has_seen_logs = s.has_seen_logs
           /\ panicked = s.panicked
    /\ ret = [NoResult("new") EXCEPT !.locks = locks_of_new]
    /\ returned = NONE
    /\ peeked = NONE
    /\ delivered_finished = 0
    /\ delivered_updates = <<>>

\* regions deleted by updates and reverts lie after the Create entry
RegionsAfterCreate ==
    [n \in 1..MaxZoneLen |-> DeletedRegionsOver(next(INITIAL), n)]

Init ==
    InitOver(Oplogs({ExportedFunctionInvoked, PersistNothing, PersistOther, Log},
                    MaxLen),
             {FALSE}, RegionsAfterCreate)

\* sessions over longer oplogs of replayed entries and hints only
InitRegions ==
    InitOver(Oplogs({ExportedFunctionInvoked, Log}, MaxZoneLen), {FALSE},
             RegionsAfterCreate)

\* sessions that start without skipped regions, over longer oplogs
NoRegions == [n \in 1..MaxZoneLen |-> {{}}]
InitZones ==
    InitOver(Oplogs(EntryKinds \ {SuccessfulUpdate}, MaxZoneLen), {FALSE}, NoRegions)

\* get_oplog_entry; callers read only in replay mode
GetOplogEntry ==
    /\ CanRecord
    /\ is_replay(Self)
    /\ LET r == get_oplog_entry(Self)
       IN  /\ Commit(r.self)
           /\ Return([NoResult("get_oplog_entry") EXCEPT
                         !.some = r.some, !.idx = r.idx, !.entry = r.entry,
                         !.locks = locks_of_try_get_oplog_entry(Self, TRUE)])
    /\ UNCHANGED <<oplog, update_is_hint, replay_target, skipped_regions,
                   delivered_finished, delivered_updates>>

TryGetOplogEntry ==
    /\ CanRecord
    /\ is_replay(Self)
    /\ \E accept \in BOOLEAN :
         LET r == try_get_oplog_entry(Self, accept)
         IN  /\ Commit(r.self)
             /\ Return([NoResult("try_get_oplog_entry") EXCEPT
                           !.some = r.some, !.idx = r.idx, !.entry = r.entry,
                           !.locks = locks_of_try_get_oplog_entry(Self, accept)])
    /\ UNCHANGED <<oplog, update_is_hint, replay_target, skipped_regions,
                   delivered_finished, delivered_updates>>

SwitchToLive ==
    /\ CanRecord
    /\ Commit(switch_to_live(Self))
    /\ Return(NoResult("switch_to_live"))
    /\ UNCHANGED <<oplog, update_is_hint, replay_target, skipped_regions,
                   delivered_finished, delivered_updates>>

TakeNewReplayEvents ==
    /\ ~panicked
    /\ LET r == take_new_replay_events(Self)
       IN  /\ Commit(r.self)
           /\ Return([NoResult("take_new_replay_events") EXCEPT
                         !.events = r.events])
           /\ delivered_finished' =
                  Min(delivered_finished + CountFinished(r.events), MaxFinished)
           /\ delivered_updates' =
                  LET all == delivered_updates \o Versions(r.events)
                  IN  SubSeq(all, 1, Min(Len(all), MaxDelivered))
    /\ UNCHANGED <<oplog, update_is_hint, replay_target, skipped_regions>>

\* set_replay_target narrows the session: callers pass a target at or after
\* last_replayed_index and within the target captured at session start
SetReplayTarget ==
    /\ ~panicked
    /\ \E new_target \in last_replayed_index..replay_target :
         replay_target' = new_target
    /\ Return(NoResult("set_replay_target"))
    /\ UNCHANGED <<oplog, update_is_hint, last_replayed_index, skipped_regions,
                   next_skipped_region, log_hashes, pending_replay_events,
                   has_seen_logs, panicked, delivered_finished, delivered_updates>>

\* add_skipped_region with a region ahead of the cursor
AddSkippedRegion ==
    /\ ~panicked
    /\ \E region \in RegionsOver(INITIAL, Len(oplog)) :
         /\ region.start > last_replayed_index
         /\ Cardinality(add(skipped_regions, region)) <= MaxRegions
         /\ skipped_regions' = add(skipped_regions, region)
    /\ Return(NoResult("add_skipped_region"))
    /\ UNCHANGED <<oplog, update_is_hint, replay_target, last_replayed_index,
                   next_skipped_region, log_hashes, pending_replay_events,
                   has_seen_logs, panicked, delivered_finished, delivered_updates>>

\* a session whose skipped regions stay as new received them
Next ==
    \/ GetOplogEntry
    \/ TryGetOplogEntry
    \/ SwitchToLive
    \/ TakeNewReplayEvents
    \/ SetReplayTarget

Spec == Init /\ [][Next]_vars
SpecZones == InitZones /\ [][Next]_vars

\* a session that also receives skipped regions while it replays
NextRegions ==
    \/ GetOplogEntry
    \/ TryGetOplogEntry
    \/ SwitchToLive
    \/ TakeNewReplayEvents
    \/ SetReplayTarget
    \/ AddSkippedRegion

SpecRegions == InitRegions /\ [][NextRegions]_vars

\* sessions over oplogs of replayed entries only (no hint entry, no
\* PersistNothing zone), read by successive get_oplog_entry calls
InitSequential ==
    InitOver(Oplogs({ExportedFunctionInvoked}, MaxZoneLen), {FALSE},
             RegionsAfterCreate)

NextSequential ==
    \/ GetOplogEntry
    \/ TakeNewReplayEvents

SpecSequential == InitSequential /\ [][NextSequential]_vars

\* skipped regions that may cover the Create entry as well
RegionsFromInitial ==
    [n \in 1..MaxZoneLen |-> DeletedRegionsOver(INITIAL, n)]

\* sessions whose skipped regions may start at INITIAL
InitFromInitial ==
    InitOver(Oplogs({ExportedFunctionInvoked, PersistNothing, PersistOther, Log},
                    MaxLen),
             {FALSE}, RegionsFromInitial)

SpecFromInitial == InitFromInitial /\ [][Next]_vars

\* the texts that the Log entries of the store carry
LogTexts == {log_text(i) : i \in 1..2}

seen_log(self, text) ==
    IF self.has_seen_logs THEN hash_log_entry(text) \in self.log_hashes
    ELSE FALSE

\* remove_seen_log that leaves the has_seen_logs flag as it was
remove_seen_log_keeps_flag(self, text) ==
    [self EXCEPT !.log_hashes = @ \ {hash_log_entry(text)}]

\* remove_seen_log that empties the set
remove_seen_log_clears_all(self, text) ==
    [self EXCEPT !.log_hashes = {}, !.has_seen_logs = FALSE]

remove_seen_log(self, text) ==
    LET hashes == self.log_hashes \ {hash_log_entry(text)}
    IN  [self EXCEPT !.log_hashes = hashes, !.has_seen_logs = (hashes # {})]

RemoveSeenLog ==
    /\ ~panicked
    /\ \E text \in LogTexts :
         /\ Commit(remove_seen_log(Self, text))
         /\ Return([NoResult("remove_seen_log") EXCEPT !.args = Some(text)])
    /\ UNCHANGED <<oplog, update_is_hint, replay_target, skipped_regions,
                   delivered_finished, delivered_updates>>

\* sessions over oplogs with Log entries inside and outside PersistNothing
\* zones, without skipped regions
InitLogs ==
    InitOver(Oplogs({ExportedFunctionInvoked, Log, PersistNothing, PersistOther},
                    MaxZoneLen),
             {FALSE}, NoRegions)

\* a session whose host also looks up and removes seen logs
NextLogs ==
    \/ GetOplogEntry
    \/ TryGetOplogEntry
    \/ SwitchToLive
    \/ TakeNewReplayEvents
    \/ RemoveSeenLog

SpecLogs == InitLogs /\ [][NextLogs]_vars

\* sessions over oplogs that hold SuccessfulUpdate entries; whether such an
\* entry is a hint entry is decided by OplogEntry::is_hint
InitUpdates ==
    InitOver(Oplogs({ExportedFunctionInvoked, SuccessfulUpdate, Log}, MaxZoneLen),
             BOOLEAN, NoRegions)

NextUpdates ==
    \/ GetOplogEntry
    \/ TryGetOplogEntry
    \/ TakeNewReplayEvents

SpecUpdates == InitUpdates /\ [][NextUpdates]_vars

\* the predicates callers hand to the lookups, as the sets of entries they
\* accept: the end of an invocation or of a zone, and "no other invocation
\* starts in between"
AnyEntry == EntryKinds \cup {Create}
EndChecks == {{PersistOther, ExportedFunctionCompleted}, {ExportedFunctionCompleted}}
Intermediates == {AnyEntry, AnyEntry \ {ExportedFunctionInvoked}}

\* a lookup that leaves the cursor on the entry it found, as a read would
LookupOplogEntryMovesCursor ==
    /\ ~panicked
    /\ \E end_check \in EndChecks, for_all_intermediate \in Intermediates :
         LET found == lookup_oplog_entry_with_condition(
                          Self, end_check, for_all_intermediate)
         IN  /\ Return([NoResult("lookup_oplog_entry_with_condition") EXCEPT
                           !.found = found,
                           !.args = Some([end_check |-> end_check,
                                          for_all_intermediate |-> for_all_intermediate])])
             /\ last_replayed_index' =
                    IF found # None THEN found[1] ELSE last_replayed_index
    /\ UNCHANGED <<oplog, update_is_hint, replay_target,
                   skipped_regions, next_skipped_region, log_hashes,
                   pending_replay_events, has_seen_logs, panicked,
                   delivered_finished, delivered_updates>>

\* lookup_oplog_entry_with_condition called by the host; lookup_oplog_entry is
\* the call with the intermediate predicate that accepts every entry
LookupOplogEntry ==
    /\ ~panicked
    /\ \E end_check \in EndChecks, for_all_intermediate \in Intermediates :
         Return([NoResult("lookup_oplog_entry_with_condition") EXCEPT
                    !.found = lookup_oplog_entry_with_condition(
                                  Self, end_check, for_all_intermediate),
                    !.args = Some([end_check |-> end_check,
                                   for_all_intermediate |-> for_all_intermediate]),
                    !.locks = locks_of_lookup_oplog_entry_with_condition(
                                  Self, end_check, for_all_intermediate)])
    /\ UNCHANGED <<oplog, update_is_hint, replay_target, last_replayed_index,
                   skipped_regions, next_skipped_region, log_hashes,
                   pending_replay_events, has_seen_logs, panicked,
                   delivered_finished, delivered_updates>>

\* sessions over invocations and their completions, with skipped regions
InitLookup ==
    InitOver(Oplogs({ExportedFunctionInvoked, ExportedFunctionCompleted, Log},
                    MaxZoneLen),
             {FALSE}, RegionsAfterCreate)

\* a session whose host looks entries up ahead of the cursor while it reads
NextLookup ==
    \/ GetOplogEntry
    \/ TakeNewReplayEvents
    \/ LookupOplogEntry

SpecLookup == InitLookup /\ [][NextLookup]_vars

\* sessions over invocations and their completions, without skipped regions
InitNarrowed ==
    InitOver(Oplogs({ExportedFunctionInvoked, ExportedFunctionCompleted, Log},
                    MaxZoneLen),
             {FALSE}, NoRegions)

\* a session whose host narrows the replay target and looks entries up
NextNarrowed ==
    \/ GetOplogEntry
    \/ TakeNewReplayEvents
    \/ SetReplayTarget
    \/ LookupOplogEntry

SpecNarrowed == InitNarrowed /\ [][NextNarrowed]_vars

\* sessions that start without skipped regions and receive them while they
\* replay: every skipped region was added ahead of the cursor
InitAdded ==
    InitOver(Oplogs({ExportedFunctionInvoked, Log}, MaxZoneLen), {FALSE}, NoRegions)

NextAdded ==
    \/ GetOplogEntry
    \/ TakeNewReplayEvents
    \/ AddSkippedRegion

SpecAdded == InitAdded /\ [][NextAdded]_vars

\* the cursor states in which skip_forward is suspended on a read of the
\* Oplog Store: the look-ahead read of internal_get_next_oplog_entry and, after
\* the opener of a PersistNothing zone, the chunk read of the lookup
RECURSIVE suspended_in_skip_forward(_)
suspended_in_skip_forward(self) ==
    IF ~is_replay(self) THEN {}
    ELSE LET read_idx == next(self.last_replayed_index)
             s1 == internal_get_next_oplog_entry(self)
         IN  {self} \cup
             IF s1.panicked THEN {}
             ELSE LET entry == oplog[read_idx]
                      skip == should_skip_to(s1, entry)
                  IN  (IF /\ entry = PersistNothing
                          /\ next(s1.last_replayed_index) < replay_target
                       THEN {s1} ELSE {})
                      \cup
                      (IF skip # None
                       THEN suspended_in_skip_forward(
                                [s1 EXCEPT !.last_replayed_index = skip[1]])
                       ELSE {})

\* the cursor states in which try_get_oplog_entry is suspended on a read of
\* the Oplog Store: its first read, then the reads of skip_forward
suspended_in_try_get_oplog_entry(self, accept) ==
    LET s1 == internal_get_next_oplog_entry(self)
    IN  {self} \cup
        IF ~s1.panicked /\ accept THEN suspended_in_skip_forward(s1) ELSE {}

\* the owning task is cancelled while get_oplog_entry or try_get_oplog_entry
\* is suspended on a read: the future is dropped and the cursor stays as the
\* call had left it by then
CancelDuringRead ==
    /\ CanRecord
    /\ is_replay(Self)
    /\ \E accept \in BOOLEAN :
         \E s \in suspended_in_try_get_oplog_entry(Self, accept) : Commit(s)
    /\ Return(NoResult("cancelled"))
    /\ UNCHANGED <<oplog, update_is_hint, replay_target, skipped_regions,
                   delivered_finished, delivered_updates>>

\* a session whose reads may be cancelled and tried again
NextCancel ==
    \/ GetOplogEntry
    \/ TryGetOplogEntry
    \/ TakeNewReplayEvents
    \/ CancelDuringRead

SpecCancel == InitLogs /\ [][NextCancel]_vars

\* what a typed helper returns: Ok(Some(..)), Ok(None) or the error
OkSome == "Ok(Some)"
OkNone == "Ok(None)"
UnexpectedOplogEntry == "Err(UnexpectedOplogEntry)"
Panic == "panic"

\* the loop of a typed helper without the test of the mode
RECURSIVE typed_helper_ignores_mode(_, _, _)
typed_helper_ignores_mode(self, expected, locks) ==
    LET r == get_oplog_entry(self)
        l == locks \o locks_of_try_get_oplog_entry(self, TRUE)
    IN  IF r.self.panicked
        THEN [self |-> r.self, outcome |-> Panic, idx |-> NONE,
              entry |-> "none", locks |-> l]
        ELSE IF r.entry = expected
        THEN [self |-> r.self, outcome |-> OkSome, idx |-> r.idx,
              entry |-> r.entry, locks |-> l]
        ELSE IF is_hint(r.entry)
        THEN typed_helper_ignores_mode(r.self, expected, l)
        ELSE [self |-> r.self, outcome |-> UnexpectedOplogEntry, idx |-> r.idx,
              entry |-> r.entry, locks |-> l]

\* the loop of a typed helper that reads on after an entry of another case
RECURSIVE typed_helper_skips_unexpected(_, _, _)
typed_helper_skips_unexpected(self, expected, locks) ==
    IF is_replay(self)
    THEN LET r == get_oplog_entry(self)
             l == locks \o locks_of_try_get_oplog_entry(self, TRUE)
         IN  IF r.self.panicked
             THEN [self |-> r.self, outcome |-> Panic, idx |-> NONE,
                   entry |-> "none", locks |-> l]
             ELSE IF r.entry = expected
             THEN [self |-> r.self, outcome |-> OkSome, idx |-> r.idx,
                   entry |-> r.entry, locks |-> l]
             ELSE typed_helper_skips_unexpected(r.self, expected, l)
    ELSE [self |-> self, outcome |-> OkNone, idx |-> NONE, entry |-> "none",
          locks |-> locks]

\* the loop of get_oplog_entry_exported_function_invoked and of
\* get_oplog_entry_exported_function_completed; expected is the case the
\* helper matches, locks the lock and read steps made so far
\* a typed helper that rewinds the read of the unexpected entry
RECURSIVE typed_helper_rewinds_unexpected(_, _, _)
typed_helper_rewinds_unexpected(self, expected, locks) ==
    IF is_replay(self)
    THEN LET r == get_oplog_entry(self)
             l == locks \o locks_of_try_get_oplog_entry(self, TRUE)
         IN  IF r.self.panicked
             THEN [self |-> r.self, outcome |-> Panic, idx |-> NONE,
                   entry |-> "none", locks |-> l]
             ELSE IF r.entry = expected
             THEN [self |-> r.self, outcome |-> OkSome, idx |-> r.idx,
                   entry |-> r.entry, locks |-> l]
             ELSE IF is_hint(r.entry)
             THEN typed_helper_rewinds_unexpected(r.self, expected, l)
             ELSE [self |-> self, outcome |-> UnexpectedOplogEntry,
                   idx |-> r.idx, entry |-> r.entry, locks |-> l]
    ELSE [self |-> self, outcome |-> OkNone, idx |-> NONE, entry |-> "none",
          locks |-> locks]

RECURSIVE typed_helper(_, _, _)
typed_helper(self, expected, locks) ==
    IF is_replay(self)
    THEN LET r == get_oplog_entry(self)
             l == locks \o locks_of_try_get_oplog_entry(self, TRUE)
         IN  IF r.self.panicked
             THEN [self |-> r.self, outcome |-> Panic, idx |-> NONE,
                   entry |-> "none", locks |-> l]
             ELSE IF r.entry = expected
             THEN [self |-> r.self, outcome |-> OkSome, idx |-> r.idx,
                   entry |-> r.entry, locks |-> l]
             ELSE IF is_hint(r.entry)
             THEN typed_helper(r.self, expected, l)
             ELSE [self |-> r.self, outcome |-> UnexpectedOplogEntry,
                   idx |-> r.idx, entry |-> r.entry, locks |-> l]
    ELSE [self |-> self, outcome |-> OkNone, idx |-> NONE, entry |-> "none",
          locks |-> locks]

get_oplog_entry_exported_function_invoked(self) ==
    typed_helper(self, ExportedFunctionInvoked, <<>>)

get_oplog_entry_exported_function_completed(self) ==
    typed_helper(self, ExportedFunctionCompleted, <<>>)

\* the typed helper returns r: the index is handed to the caller with
\* Ok(Some(..)) only
ReturnTyped(op, r) ==
    Return([NoResult(op) EXCEPT
               !.some = (r.outcome = OkSome),
               !.idx = IF r.outcome = OkSome THEN r.idx ELSE NONE,
               !.entry = r.entry,
               !.locks = r.locks,
               !.outcome = r.outcome])

\* the typed helpers are called in replay mode and in live mode
GetOplogEntryExportedFunctionInvoked ==
    /\ CanRecord
    /\ LET r == get_oplog_entry_exported_function_invoked(Self)
       IN  /\ Commit(r.self)
           /\ ReturnTyped("get_oplog_entry_exported_function_invoked", r)
    /\ UNCHANGED <<oplog, update_is_hint, replay_target, skipped_regions,
                   delivered_finished, delivered_updates>>

GetOplogEntryExportedFunctionCompleted ==
    /\ CanRecord
    /\ LET r == get_oplog_entry_exported_function_completed(Self)
       IN  /\ Commit(r.self)
           /\ ReturnTyped("get_oplog_entry_exported_function_completed", r)
    /\ UNCHANGED <<oplog, update_is_hint, replay_target, skipped_regions,
                   delivered_finished, delivered_updates>>

TypedOps ==
    {"get_oplog_entry_exported_function_invoked",
     "get_oplog_entry_exported_function_completed"}

\* a session whose invocation loop reads through the typed helpers
NextTyped ==
    \/ GetOplogEntry
    \/ GetOplogEntryExportedFunctionInvoked
    \/ GetOplogEntryExportedFunctionCompleted
    \/ SwitchToLive
    \/ TakeNewReplayEvents

SpecTyped == InitZones /\ [][NextTyped]_vars

\* sessions over oplogs long enough for a read behind a skipped region that
\* ends after a narrowed replay target
InitBeyondTarget ==
    InitOver(Oplogs({ExportedFunctionInvoked, PersistNothing}, MaxJumpLen), {FALSE},
             [n \in 1..MaxJumpLen |-> DeletedRegionsOver(next(INITIAL), n)])

NextBeyondTarget ==
    \/ GetOplogEntry
    \/ TakeNewReplayEvents
    \/ SetReplayTarget

SpecBeyondTarget == InitBeyondTarget /\ [][NextBeyondTarget]_vars

\* fresh cursors over oplogs with hints, PersistNothing zones and skipped
\* regions, read by successive get_oplog_entry calls until live
SpecReplay == Init /\ [][NextSequential]_vars

\* sessions over oplogs with PersistNothing zones, long enough for a target
\* narrowed into the interior of a zone
InitNarrowedZones ==
    InitOver(Oplogs({ExportedFunctionInvoked, PersistNothing, PersistOther},
                    MaxNarrowLen),
             {FALSE}, [n \in 1..MaxNarrowLen |-> {{}}])

SpecNarrowedZones == InitNarrowedZones /\ [][NextBeyondTarget]_vars

\* last_replayed_index at the start of every iteration of the loop of
\* skip_forward, and when the loop is left
RECURSIVE skip_forward_positions(_)
skip_forward_positions(self) ==
    IF ~is_replay(self) THEN <<self.last_replayed_index>>
    ELSE LET read_idx == next(self.last_replayed_index)
             s1 == internal_get_next_oplog_entry(self)
         IN  IF s1.panicked THEN <<self.last_replayed_index>>
             ELSE LET skip == should_skip_to(s1, oplog[read_idx])
                  IN  IF skip # None
                      THEN <<self.last_replayed_index>> \o
                           skip_forward_positions(
                               [s1 EXCEPT !.last_replayed_index = skip[1]])
                      ELSE <<self.last_replayed_index>>

\* the host reads on while is_replay() holds and drains the events in between
MaxProgressLen == 3

InitProgress ==
    InitOver(Oplogs({ExportedFunctionInvoked, PersistNothing, PersistOther, Log},
                    MaxProgressLen),
             {FALSE}, RegionsAfterCreate)

SpecProgress ==
    /\ InitProgress
    /\ [][NextSequential]_vars
    /\ WF_vars(GetOplogEntry)
    /\ WF_vars(TakeNewReplayEvents)

\* set_replay_target stores any target; here targets up to MaxPastStore
\* indices past the last entry of the store
MaxPastStore == 3

SetReplayTargetPastStore ==
    /\ ~panicked
    /\ \E new_target \in last_replayed_index..(Len(oplog) + MaxPastStore) :
         replay_target' = new_target
    /\ Return(NoResult("set_replay_target"))
    /\ UNCHANGED <<oplog, update_is_hint, last_replayed_index, skipped_regions,
                   next_skipped_region, log_hashes, pending_replay_events,
                   has_seen_logs, panicked, delivered_finished, delivered_updates>>

\* the start of every chunk lookup_oplog_entry_with_condition reads, in order
RECURSIVE chunk_starts(_, _, _, _)
chunk_starts(start, region, end_check, for_all_intermediate) ==
    IF ~(start < replay_target) THEN <<>>
    ELSE LET entries == read(start, CHUNK_SIZE)
             r == scan_chunk(start, start + Cardinality(entries) - 1, region,
                             end_check, for_all_intermediate)
         IN  <<start>> \o
             IF r.done THEN <<>>
             ELSE chunk_starts(next(range_end(start, Cardinality(entries))),
                               r.region, end_check, for_all_intermediate)

\* sessions whose replay target may lie past the entries the store holds
InitPastStore ==
    InitOver(Oplogs({ExportedFunctionInvoked, ExportedFunctionCompleted}, MaxLen),
             {FALSE}, NoRegions)

NextPastStore ==
    \/ GetOplogEntry
    \/ TakeNewReplayEvents
    \/ SetReplayTargetPastStore
    \/ LookupOplogEntry

SpecPastStore == InitPastStore /\ [][NextPastStore]_vars

\* skip_forward has stored has_seen_logs (lines 282-283) and waits for the
\* write lock of line 284; ret.args keeps its local logs and the entry read
AwaitingWriteLock == ret.outcome = "skip_forward_awaits_write_lock"

\* get_oplog_entry up to the store of lines 282-283: log_hashes is still the
\* set of the previous read
GetOplogEntryUntilStore ==
    /\ ~AwaitingWriteLock
    /\ CanRecord
    /\ is_replay(Self)
    /\ LET r == get_oplog_entry(Self)
       IN  IF r.self.panicked
           THEN /\ Commit(r.self)
                /\ Return([NoResult("get_oplog_entry") EXCEPT
                              !.some = r.some, !.idx = r.idx, !.entry = r.entry])
           ELSE /\ Commit([r.self EXCEPT !.log_hashes = log_hashes])
                /\ Return([NoResult("get_oplog_entry") EXCEPT
                              !.outcome = "skip_forward_awaits_write_lock",
                              !.args = Some([logs |-> r.self.log_hashes,
                                             some |-> r.some,
                                             idx |-> r.idx,
                                             entry |-> r.entry])])
    /\ UNCHANGED <<oplog, update_is_hint, replay_target, skipped_regions,
                   delivered_finished, delivered_updates>>

\* remove_seen_log called through a clone, which shares internal and
\* has_seen_logs; it runs whole under the write lock, between two reads of
\* the owner or while the owner's skip_forward waits for the lock
RemoveSeenLogByClone ==
    /\ ~panicked
    /\ \E text \in LogTexts :
         /\ Commit(remove_seen_log(Self, text))
         /\ IF AwaitingWriteLock
            THEN UNCHANGED <<ret, returned, peeked>>
            ELSE Return([NoResult("remove_seen_log") EXCEPT !.args = Some(text)])
    /\ UNCHANGED <<oplog, update_is_hint, replay_target, skipped_regions,
                   delivered_finished, delivered_updates>>

\* skip_forward takes the write lock and replaces log_hashes (lines 284-285);
\* get_oplog_entry returns
SkipForwardReplacesLogHashes ==
    /\ AwaitingWriteLock
    /\ log_hashes' = ret.args[1].logs
    /\ Return([NoResult("get_oplog_entry") EXCEPT
                  !.some = ret.args[1].some, !.idx = ret.args[1].idx,
                  !.entry = ret.args[1].entry])
    /\ UNCHANGED <<oplog, update_is_hint, replay_target, last_replayed_index,
                   skipped_regions, next_skipped_region, pending_replay_events,
                   has_seen_logs, panicked, delivered_finished, delivered_updates>>

\* sessions of the owner's reads and a clone's remove_seen_log calls
InitInterleaved ==
    InitOver(Oplogs({ExportedFunctionInvoked, Log}, MaxZoneLen), {FALSE}, NoRegions)

NextInterleaved ==
    \/ GetOplogEntryUntilStore
    \/ RemoveSeenLogByClone
    \/ SkipForwardReplacesLogHashes

SpecInterleaved == InitInterleaved /\ [][NextInterleaved]_vars

(***************************************************************************)
(* Properties                                                              *)
(***************************************************************************)
\* the last operation handed an entry to the caller
Returned == ret.some
\* the last operation was a try_get_oplog_entry whose condition rejected
Rejected == ~ret.some /\ ret.idx # NONE /\ ~panicked

\* C1: no index handed to the caller by get_oplog_entry or
\* try_get_oplog_entry lies inside a skipped region.
C1_RegionRespected ==
    Returned => ~is_in_deleted_region(skipped_regions, ret.idx)

\* C2: over the lifetime of a cursor the results of take_new_replay_events
\* hold ReplayFinished at most once.
C2_EventUniqueness == delivered_finished <= 1

\* C3: every step of a read or of switch_to_live that takes the cursor from
\* replay mode to live mode enqueues a ReplayFinished event.
C3_LiveTransitionEnqueues ==
    [][(/\ is_replay(Self)
        /\ replay_target' = replay_target
        /\ last_replayed_index' = replay_target')
       => CountFinished(pending_replay_events') > CountFinished(pending_replay_events)]_vars

\* C4: the indices handed to the caller strictly increase from one read to
\* the next, whatever happens in between.
C4_MonotonicIndex == Returned => ret.idx > returned

\* two reads with a hint skip or a jump between the entries they returned
C4_Witness == Returned /\ returned # NONE /\ ret.idx > returned + 1

\* C5: no hint entry is handed to the caller, and a read leaves the cursor
\* before a non-hint entry (the hints after the entry read are consumed).
C5_NoHintLeak ==
    Returned =>
        /\ ~is_hint(ret.entry)
        /\ (is_replay(Self) /\ ~panicked /\ next(last_replayed_index) \in DOMAIN oplog)
              => ~is_hint(oplog[next(last_replayed_index)])

\* a read that consumed the hint after its entry and stopped before the next
\* replayed entry
C5_Witness ==
    /\ Returned
    /\ is_replay(Self)
    /\ next(ret.idx) \in DOMAIN oplog
    /\ is_hint(oplog[next(ret.idx)])
    /\ last_replayed_index > ret.idx
    /\ next(last_replayed_index) \in DOMAIN oplog

\* the entries that end a PersistNothing zone
Closers == {PersistOther, ExportedFunctionCompleted}
\* the openers the replay meets: those that no skipped region deletes
Openers ==
    {p \in DOMAIN oplog :
        oplog[p] = PersistNothing /\ ~is_in_deleted_region(skipped_regions, p)}
\* the end of the zone opened at p: its first closer, else replay_target
ZoneEnd(p) ==
    LET cs == {c \in DOMAIN oplog : c > p /\ oplog[c] \in Closers}
    IN  IF cs = {} THEN replay_target
        ELSE CHOOSE c \in cs : \A d \in cs : c <= d
InZone(idx) == \E p \in Openers : p < idx /\ idx < ZoneEnd(p)

\* C6: no entry strictly between the opener of a PersistNothing zone and the
\* end of the zone is handed to the caller.
C6_PersistNothingTransparent == Returned => ~InZone(ret.idx)

\* a read after a closed zone whose interior holds a replayable entry
C6_Witness ==
    /\ Returned
    /\ \E p \in Openers :
          /\ next(p) < ZoneEnd(p)
          /\ oplog[next(p)] = ExportedFunctionInvoked
          /\ ZoneEnd(p) < ret.idx

\* C7: a try_get_oplog_entry whose condition rejects the entry leaves the
\* whole replay state as it was.
C7_RejectLeavesStateUnchanged ==
    [][(~ret'.some /\ ret'.idx # NONE /\ ~panicked')
       => UNCHANGED <<last_replayed_index, next_skipped_region, skipped_regions,
                      log_hashes, has_seen_logs, pending_replay_events>>]_vars

\* C8: the read that follows a rejected try_get_oplog_entry returns the pair
\* the rejected call had read.
C8_PeekRoundTrip ==
    (Returned /\ peeked # NONE) => (ret.idx = peeked /\ ret.entry = oplog[peeked])

\* a read right after a rejected try_get_oplog_entry
C8_Witness == Returned /\ peeked # NONE

\* C9: last_replayed_index stays between INITIAL and replay_target.
C9_PositionBounds ==
    ~panicked => (INITIAL <= last_replayed_index /\ last_replayed_index <= replay_target)

\* C10: last_replayed_index is never inside a skipped region.
C10_NotInsideRegion ==
    ~panicked => ~is_in_deleted_region(skipped_regions, last_replayed_index)

\* the indices of the oplog after idx that lie outside every skipped region
VisibleAfter(idx) ==
    {i \in DOMAIN oplog : i > idx /\ ~is_in_deleted_region(skipped_regions, i)}

\* C11: over a log without hints and PersistNothing zones, successive
\* get_oplog_entry calls return exactly the indices of INITIAL..N outside the
\* skipped regions, in ascending order, and the cursor is live after the last.
C11_SequentialReads ==
    /\ Returned =>
          /\ VisibleAfter(returned) # {}
          /\ \A i \in VisibleAfter(returned) : ret.idx <= i
          /\ ret.idx \in VisibleAfter(returned)
          /\ VisibleAfter(ret.idx) = {} => is_live(Self)
    /\ (~panicked /\ is_live(Self)) =>
          VisibleAfter(IF Returned THEN ret.idx ELSE returned) = {}

\* the cursor is at or past the end of r and the last read is outside of r
Honored(r) ==
    /\ last_replayed_index >= r.end
    /\ Returned => ~contains(r, ret.idx)

\* C12: a region of the skipped_regions given to new that starts at INITIAL is
\* honored by construction: the cursor is at or past its end once new has
\* returned, and no read returns an index inside it.
C12_InitialRegionHonored ==
    \A r \in skipped_regions : r.start = INITIAL => Honored(r)

\* the entries skip_forward jumps without reading them: those after the opener
\* of a PersistNothing zone, up to the index the cursor is set to
Jumped(idx) == \E p \in Openers : p < idx /\ idx <= ZoneEnd(p)

\* the texts of the Log entries of the hint block between the entry at from
\* and the cursor position upto: the Log entries skip_forward read
BlockTexts(from, upto) ==
    {log_text(i) : i \in {j \in (from + 1)..upto : oplog[j] = Log /\ ~Jumped(j)}}

\* seen_log answers for the texts of the block (from, upto], and for no other
Memoized(self, from, upto) ==
    \A text \in LogTexts : seen_log(self, text) <=> text \in BlockTexts(from, upto)

\* C13: after new and after every read seen_log is true exactly for the Log
\* entries of the hint block that the skip_forward of that operation
\* traversed (earlier blocks are forgotten), and remove_seen_log takes
\* exactly the given text out of the answers.
C13_LogMemoization ==
    [][/\ (~new.panicked) => Memoized(new, INITIAL, new.last_replayed_index)
       /\ (ret'.some /\ ~panicked') =>
             Memoized(Self', ret'.idx, last_replayed_index')
       /\ (~ret'.some /\ log_hashes' # log_hashes) =>
             \E gone \in LogTexts :
                 /\ seen_log(Self, gone) /\ ~seen_log(Self', gone)
                 /\ \A text \in LogTexts \ {gone} :
                        seen_log(Self', text) <=> seen_log(Self, text)]_vars

\* a read whose hint block holds a Log entry, after an operation that had
\* memoized a Log entry of another text
C13_Witness ==
    /\ Returned
    /\ returned # NONE
    /\ BlockTexts(ret.idx, last_replayed_index) # {}
    /\ \E text \in LogTexts :
          /\ ~seen_log(Self, text)
          /\ text \in BlockTexts(returned, previous(ret.idx))

\* C14: after every public operation has_seen_logs is true exactly when
\* log_hashes is not empty.
C14_SeenLogsFlag == ~panicked => (has_seen_logs <=> log_hashes # {})

\* a read whose hint block memoized Log entries of two texts
C14_Witness == Returned /\ has_seen_logs /\ Cardinality(log_hashes) = 2

\* the new_version of every UpdateReplayed event recorded so far, drained or
\* still pending, in the order of recording
RecordedUpdates == delivered_updates \o Versions(pending_replay_events)

Closed(p) ==
    /\ \E c \in DOMAIN oplog : c > p /\ oplog[c] \in Closers
    /\ ZoneEnd(p) <= replay_target

\* the entries a read can return: not a hint, not the opener of a zone, not
\* jumped with a zone (the entry that ends the zone is jumped with it)
Replayable(idx) ==
    /\ ~is_hint(oplog[idx])
    /\ oplog[idx] # PersistNothing
    /\ ~Jumped(idx)

\* the index the previous read returned, INITIAL before the first read
ReadFrom == IF returned = NONE THEN INITIAL ELSE returned

C17_SwitchToLive ==
    [][ret'.op = "switch_to_live" =>
          /\ last_replayed_index' = replay_target'
          /\ pending_replay_events' =
                 IF is_replay(Self)
                 THEN Append(pending_replay_events, ReplayFinished)
                 ELSE pending_replay_events
          /\ UNCHANGED <<replay_target, skipped_regions, next_skipped_region,
                         log_hashes, has_seen_logs>>
          /\ ret.op = "switch_to_live" =>
                 UNCHANGED <<last_replayed_index, pending_replay_events>>]_vars

\* switch_to_live was called in replay mode, after a read, before the target
C17_Witness ==
    /\ ret.op = "switch_to_live"
    /\ returned # NONE
    /\ returned < replay_target
    /\ last_replayed_index = replay_target
    /\ pending_replay_events = <<ReplayFinished>>

\* the sequence s starts the sequence t
IsPrefix(s, t) == Len(s) <= Len(t) /\ SubSeq(t, 1, Len(s)) = s

\* C18: take_new_replay_events returns the pending events in the order of
\* recording and leaves the queue empty; the other operations only append to
\* the queue, so every event is delivered by one drain and by one only, and
\* a drain right after a drain returns nothing.
C18_DrainInOrder ==
    [][/\ ret'.op = "take_new_replay_events" =>
              /\ ret'.events = pending_replay_events
              /\ pending_replay_events' = <<>>
              /\ ret.op = "take_new_replay_events" => ret'.events = <<>>
       /\ ret'.op # "take_new_replay_events" =>
              IsPrefix(pending_replay_events, pending_replay_events')]_vars

\* a drain that returned the two events one read had recorded, in the order
\* of recording: UpdateReplayed, then ReplayFinished
C18_Witness ==
    /\ ret.op = "take_new_replay_events"
    /\ returned # NONE
    /\ Len(ret.events) = 2
    /\ ret.events[1].event = "UpdateReplayed"
    /\ ret.events[2] = ReplayFinished
    /\ pending_replay_events = <<>>

\* the last operation was a lookup
LookedUp == ret.op = "lookup_oplog_entry_with_condition"

\* C19: the lookups honor every skipped region ahead of the cursor: the
\* index they return is never inside a skipped region.
C19_LookupHonorsRegions ==
    (LookedUp /\ ret.found # None) =>
        ~is_in_deleted_region(skipped_regions, ret.found[1])

\* the indices a lookup scans: those after the cursor, in ascending order,
\* outside the skipped region the cursor has cached; none when the entry
\* after the cursor is not before replay_target
Scanned ==
    IF next(last_replayed_index) < replay_target
    THEN {i \in DOMAIN oplog :
             /\ i > last_replayed_index
             /\ ~(next_skipped_region # None /\ contains(next_skipped_region[1], i))}
    ELSE {}

\* what the lookup is to return: the first scanned entry that satisfies
\* end_check or fails for_all_intermediate decides
Expected(end_check, for_all_intermediate) ==
    LET stops == {i \in Scanned :
                     oplog[i] \in end_check \/ oplog[i] \notin for_all_intermediate}
    IN  IF stops = {} THEN None
        ELSE LET first == CHOOSE i \in stops : \A j \in stops : i <= j
             IN  IF oplog[first] \in end_check THEN Some(first) ELSE None

\* C20: lookup_oplog_entry_with_condition scans upwards from
\* last_replayed_index.next() and returns the first scanned entry satisfying
\* end_check if all scanned entries before it satisfy for_all_intermediate,
\* None at the first scanned entry satisfying neither, None when none matches.
C20_LookupFirstMatch ==
    LookedUp =>
        ret.found = Expected(ret.args[1].end_check, ret.args[1].for_all_intermediate)

\* a lookup for the completion that returned None because a second
\* ExportedFunctionInvoked precedes the ExportedFunctionCompleted
C20_Witness ==
    /\ LookedUp
    /\ ret.found = None
    /\ ret.args[1].end_check = {ExportedFunctionCompleted}
    /\ \E i \in Scanned, j \in Scanned :
          /\ i < j
          /\ oplog[i] = ExportedFunctionInvoked
          /\ oplog[j] = ExportedFunctionCompleted
          /\ \A k \in Scanned : k < i => oplog[k] = Log

\* C21: the lookup scan is bounded by replay_target: a lookup never returns
\* an index greater than replay_target, and it returns None when no entry
\* after the cursor and up to replay_target satisfies end_check.
C21_LookupBounded ==
    LookedUp =>
        /\ ret.found # None => ret.found[1] <= replay_target
        /\ (\A i \in next(last_replayed_index)..replay_target :
                oplog[i] \notin ret.args[1].end_check) => ret.found = None

\* C22: the lookups do not mutate the cursor: last_replayed_index,
\* replay_target, skipped_regions, next_skipped_region, log_hashes,
\* has_seen_logs and pending_replay_events are the same before and after
\* every lookup, whatever it returns.
C22_LookupLeavesCursor ==
    [][ret'.op = "lookup_oplog_entry_with_condition" =>
          UNCHANGED <<last_replayed_index, replay_target, skipped_regions,
                      next_skipped_region, log_hashes, has_seen_logs,
                      pending_replay_events>>]_vars

\* a lookup after a read that found its entry further ahead than the entry
\* after the cursor, past a cached skipped region
C22_Witness ==
    /\ LookedUp
    /\ returned # NONE
    /\ ret.found # None
    /\ ret.found[1] > next(last_replayed_index)
    /\ next_skipped_region # None
    /\ next_skipped_region[1].start > last_replayed_index
    /\ next_skipped_region[1].end < ret.found[1]

\* C23: a region added with add_skipped_region ahead of the cursor is
\* discovered when the cursor next advances: the get_oplog_entry calls after
\* it return no index inside it and leave the cursor outside of its interior.
C23_AddedRegionDiscovered ==
    (Returned /\ ret.op = "get_oplog_entry") =>
        \A r \in skipped_regions :
            /\ ~contains(r, ret.idx)
            /\ ~(r.start <= last_replayed_index /\ last_replayed_index < r.end)

\* C24: a read cancelled while it is suspended on an Oplog Store read has
\* committed no cursor state: last_replayed_index, next_skipped_region,
\* log_hashes, has_seen_logs and pending_replay_events are as they were
\* before the operation began.
C24_CancellationSafety ==
    [][ret'.op = "cancelled" =>
          UNCHANGED <<last_replayed_index, next_skipped_region, log_hashes,
                      has_seen_logs, pending_replay_events>>]_vars

\* the guards on internal that are held before the i-th step of an operation
Held(locks, i) ==
    Cardinality({j \in 1..(i - 1) : locks[j] \in {"read_lock", "write_lock"}})
        - Cardinality({j \in 1..(i - 1) : locks[j] = "unlock"})

StoreReads(locks) == {i \in DOMAIN locks : locks[i] = "store_read"}

\* C25: no operation of the cursor holds the lock on internal while it is
\* suspended on a read of the Oplog Store: at every store read of new, of a
\* read and of a lookup, single-entry or chunked, no guard is held.
C25_NoLockAcrossRead ==
    \A i \in StoreReads(ret.locks) : Held(ret.locks, i) = 0

\* a read that took the lock, read the opener of a PersistNothing zone, took
\* the lock again and made the chunked read of the lookup for the zone's end
C25_Witness ==
    /\ ret.op = "get_oplog_entry"
    /\ Returned
    /\ \E p \in Openers :
          /\ ret.idx < p
          /\ p < last_replayed_index
    /\ Cardinality(StoreReads(ret.locks)) >= 4
    /\ \E i \in StoreReads(ret.locks) :
          /\ i > 2
          /\ ret.locks[i - 1] = "unlock"
          /\ ret.locks[i - 2] = "read_lock"
          /\ \E j \in StoreReads(ret.locks) : j < i

\* C26: a typed helper called in live mode returns Ok(None) without reading
\* the Oplog Store, and leaves last_replayed_index, next_skipped_region,
\* log_hashes and pending_replay_events unchanged.
C26_TypedHelperLive ==
    [][(ret'.op \in TypedOps /\ is_live(Self)) =>
          /\ ret'.outcome = OkNone
          /\ StoreReads(ret'.locks) = {}
          /\ UNCHANGED <<last_replayed_index, next_skipped_region, log_hashes,
                         pending_replay_events>>]_vars

\* a typed helper returned Ok(None) without a store read, after reads that
\* took the cursor to replay_target and left seen logs behind
C26_Witness ==
    /\ ret.op \in TypedOps
    /\ ret.outcome = OkNone
    /\ ret.locks = <<>>
    /\ is_live(Self)
    /\ returned # NONE
    /\ next(returned) < replay_target
    /\ log_hashes # {}

\* the case a typed helper matches
ExpectedCase(op) ==
    IF op = "get_oplog_entry_exported_function_invoked"
    THEN ExportedFunctionInvoked
    ELSE ExportedFunctionCompleted

\* the entries after the cursor that are neither hints nor consumed with a
\* PersistNothing zone
NonHintsAhead == {i \in DOMAIN oplog : i > last_replayed_index /\ Replayable(i)}

\* C27: in replay mode a typed helper returns Ok(Some(..)) built from the next
\* non-hint entry when that entry is of the case the helper matches, and the
\* UnexpectedOplogEntry error when it is of any other case.
C27_TypedHelperReplay ==
    [][(ret'.op \in TypedOps /\ is_replay(Self) /\ ~panicked') =>
          /\ NonHintsAhead # {}
          /\ LET i == CHOOSE i \in NonHintsAhead : \A j \in NonHintsAhead : i <= j
             IN  /\ ret'.entry = oplog[i]
                 /\ IF oplog[i] = ExpectedCase(ret'.op)
                    THEN ret'.outcome = OkSome /\ ret'.idx = i
                    ELSE ret'.outcome = UnexpectedOplogEntry]_vars

\* get_oplog_entry_exported_function_invoked returned the error for an
\* ExportedFunctionCompleted entry, after an earlier read had skipped hints
C27_Witness ==
    /\ ret.op = "get_oplog_entry_exported_function_invoked"
    /\ ret.outcome = UnexpectedOplogEntry
    /\ ret.entry = ExportedFunctionCompleted
    /\ returned # NONE
    /\ \E i \in DOMAIN oplog :
          /\ oplog[i] = ExportedFunctionCompleted
          /\ i > next(returned)
          /\ \A j \in next(returned)..(i - 1) : is_hint(oplog[j])
          /\ i <= last_replayed_index

\* C28: after remove_seen_log(l, c, m) seen_log(l, c, m) is false, however
\* often the Log occurred in the hint block; the other fingerprints are kept;
\* has_seen_logs is false exactly when the set became empty; removing the
\* only Log of the block leaves seen_log false and has_seen_logs false.
C28_RemoveSeenLog ==
    [][ret'.op = "remove_seen_log" =>
          LET text == ret'.args[1]
          IN  /\ ~seen_log(Self', text)
              /\ log_hashes' = log_hashes \ {hash_log_entry(text)}
              /\ \A other \in LogTexts \ {text} :
                     seen_log(Self', other) <=> seen_log(Self, other)
              /\ has_seen_logs' <=> (log_hashes' # {})
              /\ log_hashes = {hash_log_entry(text)} =>
                     /\ ~has_seen_logs'
                     /\ \A any \in LogTexts : ~seen_log(Self', any)]_vars

\* the Log entries of the last hint block with the given text
LogsOfBlock(text) ==
    {i \in (ReadFrom + 1)..last_replayed_index :
        oplog[i] = Log /\ ~Jumped(i) /\ log_text(i) = text}

\* a text that occurred twice in the hint block was removed, and a Log of
\* another text of the same block is still seen
C28_Witness ==
    /\ ret.op = "remove_seen_log"
    /\ Cardinality(LogsOfBlock(ret.args[1])) = 2
    /\ ~seen_log(Self, ret.args[1])
    /\ \E other \in LogTexts : LogsOfBlock(other) # {} /\ seen_log(Self, other)

\* C29: get_oplog_entry returns (i, e) where i is the successor of
\* last_replayed_index at the time of the call and e is the entry stored at
\* i, however many hint entries are skipped afterwards; when it returns,
\* last_replayed_index >= i.
C29_ReadIndex ==
    [][(ret'.op = "get_oplog_entry" /\ ret'.some) =>
          /\ ret'.idx = next(last_replayed_index)
          /\ ret'.entry = oplog[ret'.idx]
          /\ last_replayed_index' >= ret'.idx]_vars

\* C30: after every position update that ends a public operation in replay
\* mode the cursor has landed outside every skipped region: the next index
\* to be read, last_replayed_index.next(), is inside no skipped region.
C30_LandsOutsideRegions ==
    (~panicked /\ is_replay(Self)) =>
        ~is_in_deleted_region(skipped_regions, next(last_replayed_index))

\* the first region of skipped_regions whose start is greater than idx
FirstRegionAfter(idx) ==
    LET ahead == {r \in skipped_regions : r.start > idx}
    IN  IF ahead = {} THEN None
        ELSE Some(CHOOSE r \in ahead : \A q \in ahead : r.start <= q.start)

\* C31: cache coherence of next_skipped_region: after every public operation
\* it is the first region of skipped_regions whose start is greater than
\* last_replayed_index, None when there is none.
C31_RegionCacheCoherent ==
    ~panicked => next_skipped_region = FirstRegionAfter(last_replayed_index)

\* the entries the replay owes to the caller: after INITIAL, up to
\* replay_target, not a hint, inside no skipped region, and neither the
\* opener, an interior entry nor the terminating entry of a PersistNothing zone
Due(idx) ==
    /\ INITIAL < idx
    /\ idx <= replay_target
    /\ ~is_in_deleted_region(skipped_regions, idx)
    /\ Replayable(idx)

DueAfter(idx) == {i \in DOMAIN oplog : i > idx /\ Due(i)}

\* C32: replay completeness: the successive get_oplog_entry calls on a fresh
\* cursor return the entries that are due, each once and in ascending order:
\* a read returns the first due entry after the one read before it, and
\* the cursor is live only when no due entry is left; INITIAL is not returned.
C32_ReplayCompleteness ==
    /\ Returned =>
          /\ ret.idx # INITIAL
          /\ DueAfter(ReadFrom) # {}
          /\ ret.idx \in DueAfter(ReadFrom)
          /\ \A i \in DueAfter(ReadFrom) : ret.idx <= i
    /\ (~panicked /\ is_live(Self)) =>
          DueAfter(IF Returned THEN ret.idx ELSE ReadFrom) = {}

\* C33: whenever new, get_oplog_entry or a successful try_get_oplog_entry
\* returns in replay mode, the entry at last_replayed_index.next() is neither
\* a hint entry nor the opener of a PersistNothing zone.
C33_ReadyToRead ==
    ((ret.op = "new" \/ Returned) /\ ~panicked /\ is_replay(Self)) =>
        /\ next(last_replayed_index) \in DOMAIN oplog
        /\ ~is_hint(oplog[next(last_replayed_index)])
        /\ oplog[next(last_replayed_index)] # PersistNothing

\* new returned in replay mode after its skip_forward had jumped a closed
\* PersistNothing zone that starts right after Create
C33_Witness ==
    /\ ret.op = "new"
    /\ is_replay(Self)
    /\ oplog[next(INITIAL)] = PersistNothing
    /\ next(INITIAL) \in Openers
    /\ last_replayed_index = ZoneEnd(next(INITIAL))
    /\ last_replayed_index < replay_target

\* the opener p is the first entry that is not a hint after the entry at from
MetBySkipForward(from, p) ==
    /\ from < p
    /\ p <= replay_target
    /\ oplog[p] = PersistNothing
    /\ \A i \in (from + 1)..(p - 1) : is_hint(oplog[i])

\* no entry after the opener p and up to replay_target closes the zone
Unclosed(p) == \A c \in (p + 1)..replay_target : oplog[c] \notin Closers

\* C34: if the skip_forward of new or of a read meets the opener of a
\* PersistNothing zone that no entry up to replay_target closes,
\* last_replayed_index is set to replay_target and the cursor is live.
C34_UnclosedZoneToLive ==
    ((ret.op = "new" \/ Returned) /\ ~panicked) =>
        \A p \in DOMAIN oplog :
            (MetBySkipForward(IF Returned THEN ret.idx ELSE INITIAL, p) /\ Unclosed(p))
                => (last_replayed_index = replay_target /\ is_live(Self))

StrictlyIncreasing(s) == \A i \in 1..(Len(s) - 1) : s[i] < s[i + 1]

\* C35: progress to live: on a fresh cursor whose skipped regions end at or
\* before replay_target, repeated get_oplog_entry calls eventually make
\* is_live() true; every iteration of the loop of skip_forward that stays in
\* the loop strictly increases last_replayed_index, every read does, and the
\* cursor never steps over replay_target.
C35_ProgressToLive ==
    /\ <>is_live(Self)
    /\ [](last_replayed_index <= replay_target /\ ~panicked)
    /\ [][ret'.op = "get_oplog_entry" =>
             /\ last_replayed_index' > last_replayed_index
             /\ StrictlyIncreasing(
                    skip_forward_positions(internal_get_next_oplog_entry(Self)))]_vars

\* a read returned an entry and its jump over a skipped region behind that
\* entry made the cursor live
C35_Witness ==
    /\ Returned
    /\ is_live(Self)
    /\ \E r \in skipped_regions :
           ret.idx < r.start /\ r.end <= last_replayed_index

\* the chunks read by the lookup that has just returned
ChunksOfLookup ==
    chunk_starts(next(last_replayed_index), next_skipped_region,
                 ret.args[1].end_check, ret.args[1].for_all_intermediate)

\* C36: lookup_oplog_entry_with_condition terminates: each chunk iteration
\* strictly increases the scan start, and an empty chunk returned by the store
\* while start < replay_target ends the loop: no read follows it.
C36_EmptyChunkEndsLookup ==
    ret.op = "lookup_oplog_entry_with_condition" =>
        /\ StrictlyIncreasing(ChunksOfLookup)
        /\ \A i \in 1..Len(ChunksOfLookup) :
               read(ChunksOfLookup[i], CHUNK_SIZE) = {} => i = Len(ChunksOfLookup)

\* C37: when remove_seen_log, called through a clone, interleaves with
\* skip_forward between its store to has_seen_logs and its replacement of
\* log_hashes, has_seen_logs = (log_hashes is not empty) holds once both have
\* completed, and seen_log answers true for every fingerprint in log_hashes.
C37_FlagMatchesLogHashes ==
    (~AwaitingWriteLock /\ ~panicked) =>
        /\ has_seen_logs = (log_hashes # {})
        /\ \A text \in LogTexts :
               hash_log_entry(text) \in log_hashes => seen_log(Self, text)

\* the entries the loop of skip_forward read and kept, given the positions of
\* the cursor at the head of its iterations
HintsRead(p) == {next(p[i]) : i \in 1..(Len(p) - 1)}
\* the entries a jump from the opener of a PersistNothing zone went over
JumpedOver(p) ==
    {j \in DOMAIN oplog :
        \E i \in 1..(Len(p) - 1) :
            /\ oplog[next(p[i])] = PersistNothing
            /\ next(p[i]) < j
            /\ j <= p[i + 1]}
\* the fingerprints of the Log entries among the given entries
Fingerprints(idxs) ==
    {hash_log_entry(log_text(j)) : j \in {i \in idxs : oplog[i] = Log}}
\* the positions of the skip_forward of a get_oplog_entry on the cursor
PositionsOfRead ==
    skip_forward_positions(internal_get_next_oplog_entry(Self))

\* C38: the Log entries inside a PersistNothing zone that skip_forward jumps
\* over are not fingerprinted: after the read seen_log is false for such an
\* entry unless a Log entry of the same text was read as a hint in the same
\* skip_forward run, and only Log entries read by the loop are in log_hashes.
C38_JumpedLogsNotFingerprinted ==
    [][(ret'.op = "get_oplog_entry" /\ ~panicked') =>
          /\ \A j \in JumpedOver(PositionsOfRead) :
                 (oplog[j] = Log /\ seen_log(Self', log_text(j))) =>
                     hash_log_entry(log_text(j)) \in
                         Fingerprints(HintsRead(PositionsOfRead))
          /\ log_hashes' \subseteq Fingerprints(HintsRead(PositionsOfRead))]_vars

\* a read whose skip_forward fingerprinted a Log entry and then jumped over a
\* Log entry of another text, for which seen_log answers false
C38_Witness ==
    /\ Returned
    /\ log_hashes # {}
    /\ \E j \in DOMAIN oplog :
          /\ ret.idx < j /\ j <= last_replayed_index
          /\ Jumped(j)
          /\ oplog[j] = Log
          /\ ~seen_log(Self, log_text(j))

\* the first entry after the cursor that is not a hint: the entry a typed
\* helper called now answers about
FirstNonHintAhead ==
    LET ahead == {i \in DOMAIN oplog :
                     i > last_replayed_index /\ ~is_hint(oplog[i])}
    IN  CHOOSE i \in ahead : \A j \in ahead : i <= j
\* the events internal_get_next_oplog_entry records for the entry at idx
EventsOfReading(idx) ==
    (IF oplog[idx] = SuccessfulUpdate
     THEN <<UpdateReplayed(target_version(idx))>> ELSE <<>>) \o
    (IF idx = replay_target THEN <<ReplayFinished>> ELSE <<>>)

\* C39: when a typed helper returns the UnexpectedOplogEntry error the
\* offending entry has been consumed and is not rewound: the cursor is at or
\* past its index, the hints that trail it have been skipped, and the events
\* recorded while reading it are still in pending_replay_events.
C39_UnexpectedEntryConsumed ==
    [][(ret'.op \in TypedOps /\ ret'.outcome = UnexpectedOplogEntry) =>
          /\ oplog[FirstNonHintAhead] = ret'.entry
          /\ last_replayed_index' >= FirstNonHintAhead
          /\ is_replay(Self') => ~is_hint(oplog[next(last_replayed_index')])
          /\ IsPrefix(pending_replay_events \o EventsOfReading(FirstNonHintAhead),
                      pending_replay_events')]_vars

\* a typed helper answered UnexpectedOplogEntry for an entry that a hint
\* trails, and the cursor stands on that hint, still replaying
C39_Witness ==
    /\ ret.op \in TypedOps
    /\ ret.outcome = UnexpectedOplogEntry
    /\ is_replay(Self)
    /\ is_hint(oplog[last_replayed_index])
    /\ oplog[previous(last_replayed_index)] = ret.entry

=============================================================================
